---- MODULE Spec2Model ----
(***************************************************************************)
(* Nonnegative matrix factorization by alternating minimization, as run by *)
(* examples/notebooks/WWW/nonneg_matrix_fact.ipynb.                        *)
(*                                                                         *)
(* The notebook is a closed program: the seed, the dimensions, the         *)
(* iteration count and the solver options are literals.  Its three code    *)
(* cells run in order; a raised exception ends the run.  The convex solver *)
(* (SCS behind cvxpy) is external: each call returns a status, chosen      *)
(* nondeterministically, and the optimal value and solution the notebook   *)
(* recorded for that iteration in its stored output.  Numbers are fixed    *)
(* point, in units of 1/Scale.  A matrix is a record of its Python type,   *)
(* its shape and a tag naming its contents; the entries are known for the  *)
(* two matrices the notebook printed.                                      *)
(***************************************************************************)
EXTENDS Integers, Sequences, FiniteSets, TLC

VARIABLES
    pc,          \* position of the run in the notebook
    rng,         \* NumPy generator: the seed and the number of draws made
    A,           \* data matrix
    Y_init,      \* initial left factor
    X,           \* right factor: undefined, cp.Variable or ndarray
    Y,           \* left factor: cp.Variable or ndarray
    iter_num,    \* loop variable of the for statement
    residual,    \* np.zeros(MAX_ITERS), one slot per iteration
    constraint,  \* the constraint list of the current subproblem
    prob,        \* the current cp.Problem with its status and value
    stdout,      \* lines printed by the loop
    exception,   \* the exception that ended the run, if any
    report,      \* what the output cell printed and plotted
    declared,    \* history: the block declared free in each iteration
    solverCalls, \* history: one entry per call of prob.solve
    writes       \* history: one entry per assignment into residual

vars == <<pc, rng, A, Y_init, X, Y, iter_num, residual, constraint, prob,
          stdout, exception, report, declared, solverCalls, writes>>

(* Fixed point: 1.0 is Scale. *)
Scale == 10000 * 10000

(* Problem dimensions and iteration count. *)
m == 10
n == 10
k == 5
MAX_ITERS == 30

(* Solver statuses the notebook names. *)
OPTIMAL == "optimal"
OPTIMAL_INACCURATE == "optimal_inaccurate"
Statuses == {OPTIMAL, OPTIMAL_INACCURATE}

(* Optimal values printed by the recorded run, iteration 1 to 30. *)
RefResidual ==
    << 276630056, 58403569, 33566800, 18670276, 12819922,
       9295502, 6766021, 4958205, 3897402, 2979328,
       2293856, 2194392, 1810298, 1455116, 1403969,
       935461, 864314, 727810, 848668, 882751,
       839676, 526519, 693193, 735616, 390539,
       398989, 292036, 777925, 733901, 500854 >>

RefY ==
    << <<75647574, 34210237, 84042664, 70284511, 438003>>,
       <<63618937, 82783186, 52816583, 56060940, 3345954>>,
       <<55483486, 63795456, 80172623, 19687904, 3747367>>,
       <<27295578, 95374915, 6149348, 98127697, -4266>>,
       <<79395256, 35094687, 118853643, 38596132, 2967019>>,
       <<72618335, 44163994, 271712, 73339363, 4551761>>,
       <<48926310, 42072510, 75603640, 6240335, -53830>>,
       <<60981084, 75578043, 103636918, 90854991, 191845>>,
       <<83157833, 8755, 29354317, 110037225, -26588>>,
       <<42665097, 5537620, 65285537, 64313283, 1475693>> >>

RefX ==
    << <<107015116, 42596196, 159511553, 62680861, 89812430, 36280172, 95375767, 18866132, 96455906, 14367562>>,
       <<87290881, 70355350, 64522920, 110121868, 99362127, 31238380, 74508531, 12515559, 88427239, 79498851>>,
       <<14109, 17004913, 27342726, 2509332, 838007, 25157570, 59947342, 13936225, 50684050, 42284426>>,
       <<27090693, 54634055, 1042564, 46329084, 13988979, 765220, 22274292, 3608751, 34160115, 2724484>>,
       <<544108256, 462667224, 626354249, 72365601, 181220987, -26, 290739234, 281123997, -216, 643189790>> >>

(***************************************************************************)
(* Objects                                                                 *)
(***************************************************************************)
NoData == <<"none", 0>>

(* A name that has not been assigned yet. *)
Undefined == [type |-> "undefined", shape |-> <<0, 0>>, value |-> NoData]

(* A NumPy array with the given shape and contents. *)
NdArray(shape, data) == [type |-> "ndarray", shape |-> shape, value |-> data]

(* cp.Variable(shape=shape): its value attribute is None until a solve. *)
Variable(shape) == [type |-> "Variable", shape |-> shape, value |-> NoData]

(* np.random.rand(r, c): the draw-th array drawn since the seed was set. *)
Rand(r, c, draw) == NdArray(<<r, c>>, <<"rand", draw>>)

(* a.dot(b) *)
Dot(a, b) == NdArray(<<a.shape[1], b.shape[2]>>, <<"dot", a.value[2]>>)

(* v.value of a cp.Variable: the array the last solve stored in it. *)
ValueOfForgotten(v) == v
ValueOfTransposed(v) == NdArray(<<v.shape[2], v.shape[1]>>, v.value)
ValueOf(v) == NdArray(v.shape, v.value)

(* Entries of a matrix, for the two the notebook printed: the left factor  *)
(* solved in iteration 30 and the right factor solved in iteration 29.     *)
(* Nothing is recorded about any other matrix: no entries are known.      *)
EntriesOf(a) ==
    IF a.type = "ndarray" /\ a.value = <<OPTIMAL, 30>> THEN RefY
    ELSE IF a.type = "ndarray" /\ a.value = <<OPTIMAL, 29>> THEN RefX
    ELSE << >>

NoConstraint == [var |-> "none", rel |-> "none"]
NoProblem ==
    [objective |-> [A |-> Undefined, Y |-> Undefined, X |-> Undefined],
     constraints |-> NoConstraint, status |-> "none", value |-> 0]
NoException == [type |-> "none", text |-> "", fmtargs |-> << >>]
NoReport ==
    [printed |-> FALSE, A |-> Undefined, Y |-> Undefined, X |-> Undefined,
     plotted |-> << >>, iter_num |-> 0, value |-> 0]

(* raise Exception("Solver did not converge!") *)
SolverDidNotConvergeBlank ==
    [type |-> "Exception", text |-> "", fmtargs |-> << >>]
SolverDidNotConverge ==
    [type |-> "Exception", text |-> "Solver did not converge!", fmtargs |-> << >>]

(* 'Iteration {}, residual norm {}'.format(iter_num, prob.value) *)
IterationLine(i, v) ==
    [text |-> "Iteration {}, residual norm {}", fmtargs |-> <<i, v>>]

(***************************************************************************)
(* Tests and expressions of the loop body                                  *)
(***************************************************************************)
(* if iter_num % 2 == 1, the test choosing the free block *)
OptimizeOverXAlways(i) == TRUE
OptimizeOverX(i) == i % 2 = 1

(* if iter_num % 2 == 1, the test choosing the block to convert *)
ConvertXNever(i) == FALSE
ConvertX(i) == i % 2 = 1

(* range(1, 1+MAX_ITERS): whether an index follows i *)
MoreIterationsOneShort(i) == i < MAX_ITERS - 1
MoreIterations(i) == i < MAX_ITERS

(* prob.status != cp.OPTIMAL, negated *)
StatusOkLenient(status) == status \in {OPTIMAL, OPTIMAL_INACCURATE}
StatusOk(status) == status = OPTIMAL

(* residual[iter_num-1]: Python's 0-based slot, as a 1-based position *)
ResidualIndexOffByOne(i) == i + 1
ResidualIndex(i) == (i - 1) + 1

(* the right-hand side of residual[iter_num-1] = prob.value *)
RecordedCumulative(p, res, i) ==
    IF i = 1 THEN p.value ELSE res[i - 1] + p.value
RecordedChange(p, res, i) == IF i = 1 THEN p.value ELSE p.value - res[i - 1]
RecordedValue(p, res, i) == p.value

(* The value prob.solve reports in iteration i. *)
SolverValue(i) == RefResidual[i]

(* prob.solve stores a solution in every cp.Variable of the problem. *)
SolvedAsArray(v, status, i) ==
    IF v.type = "Variable" THEN NdArray(v.shape, <<status, i>>) ELSE v
Solved(v, status, i) ==
    IF v.type = "Variable" THEN [v EXCEPT !.value = <<status, i>>] ELSE v

(***************************************************************************)
(* The run                                                                 *)
(***************************************************************************)
Init ==
    /\ pc = "generate"
    /\ rng = [seed |-> -1, draws |-> 0]
    /\ A = Undefined
    /\ Y_init = Undefined
    /\ X = Undefined
    /\ Y = Undefined
    /\ iter_num = 0
    /\ residual = << >>
    /\ constraint = NoConstraint
    /\ prob = NoProblem
    /\ stdout = << >>
    /\ exception = NoException
    /\ report = NoReport
    /\ declared = << >>
    /\ solverCalls = << >>
    /\ writes = << >>

(* Cell 1: seed the generator, draw A as a product of two random factors,  *)
(* draw the initial Y.                                                     *)
GenerateData ==
    /\ pc = "generate"
    /\ rng' = [seed |-> 0, draws |-> 3]
    /\ A' = Dot(Rand(m, k, 1), Rand(k, n, 2))
    /\ Y_init' = Rand(m, k, 3)
    /\ pc' = "setup"
    /\ UNCHANGED <<X, Y, iter_num, residual, constraint, prob, stdout,
                   exception, report, declared, solverCalls, writes>>

(* Cell 2, before the loop: Y = Y_init; residual = np.zeros(MAX_ITERS). *)
Setup ==
    /\ pc = "setup"
    /\ Y' = Y_init
    /\ residual' = [j \in 1..MAX_ITERS |-> 0]
    /\ pc' = "loop"
    /\ UNCHANGED <<rng, A, Y_init, X, iter_num, constraint, prob, stdout,
                   exception, report, declared, solverCalls, writes>>

(* for iter_num in range(1, 1+MAX_ITERS): take the next index, or leave    *)
(* the loop, which ends cell 2.                                            *)
LoopNext ==
    /\ pc = "loop"
    /\ IF MoreIterations(iter_num)
       THEN /\ iter_num' = iter_num + 1
            /\ pc' = "declare"
       ELSE /\ iter_num' = iter_num
            /\ pc' = "output"
    /\ UNCHANGED <<rng, A, Y_init, X, Y, residual, constraint, prob, stdout,
                   exception, report, declared, solverCalls, writes>>

(* Declare the free block and its constraint. *)
Declare ==
    /\ pc = "declare"
    /\ IF OptimizeOverX(iter_num)
       THEN /\ X' = Variable(<<k, n>>)
            /\ constraint' = [var |-> "X", rel |-> ">= 0"]
            /\ declared' = Append(declared, "X")
            /\ Y' = Y
       ELSE /\ Y' = Variable(<<m, k>>)
            /\ constraint' = [var |-> "Y", rel |-> ">= 0"]
            /\ declared' = Append(declared, "Y")
            /\ X' = X
    /\ pc' = "solve"
    /\ UNCHANGED <<rng, A, Y_init, iter_num, residual, prob, stdout,
                   exception, report, solverCalls, writes>>

(* Build the objective and the problem from the current A, Y, X and call   *)
(* the solver once.  The solver returns a status and a value and stores a  *)
(* solution in the problem's variable.                                     *)
Solve ==
    /\ pc = "solve"
    /\ \E status \in Statuses :
          /\ prob' = [objective |-> [A |-> A,
                                     Y |-> Solved(Y, status, iter_num),
                                     X |-> Solved(X, status, iter_num)],
                      constraints |-> constraint,
                      status |-> status,
                      value |-> SolverValue(iter_num)]
          /\ X' = Solved(X, status, iter_num)
          /\ Y' = Solved(Y, status, iter_num)
          /\ solverCalls' = Append(solverCalls,
                 [iter |-> iter_num, status |-> status,
                  value |-> SolverValue(iter_num)])
    /\ pc' = "check"
    /\ UNCHANGED <<rng, A, Y_init, iter_num, residual, constraint, stdout,
                   exception, report, declared, writes>>

(* if prob.status != cp.OPTIMAL: raise *)
CheckStatus ==
    /\ pc = "check"
    /\ IF StatusOk(prob.status)
       THEN /\ pc' = "record"
            /\ exception' = exception
       ELSE /\ pc' = "failed"
            /\ exception' = SolverDidNotConverge
    /\ UNCHANGED <<rng, A, Y_init, X, Y, iter_num, residual, constraint,
                   prob, stdout, report, declared, solverCalls, writes>>

(* Print the progress line and store the value in the trace. *)
Record ==
    /\ pc = "record"
    /\ stdout' = Append(stdout, IterationLine(iter_num, prob.value))
    /\ residual' = [residual EXCEPT ![ResidualIndex(iter_num)] =
                        RecordedValue(prob, residual, iter_num)]
    /\ writes' = Append(writes,
           [iter |-> iter_num, index |-> ResidualIndex(iter_num),
            value |-> RecordedValue(prob, residual, iter_num)])
    /\ pc' = "convert"
    /\ UNCHANGED <<rng, A, Y_init, X, Y, iter_num, constraint, prob,
                   exception, report, declared, solverCalls>>

(* Convert the solved variable to an array for the next iteration. *)
Convert ==
    /\ pc = "convert"
    /\ IF ConvertX(iter_num)
       THEN /\ X' = ValueOf(X)
            /\ Y' = Y
       ELSE /\ Y' = ValueOf(Y)
            /\ X' = X
    /\ pc' = "loop"
    /\ UNCHANGED <<rng, A, Y_init, iter_num, residual, constraint, prob,
                   stdout, exception, report, declared, solverCalls, writes>>

(* Cell 3: plot the trace, print A, Y, X and the last value. *)
Output ==
    /\ pc = "output"
    /\ report' = [printed |-> TRUE, A |-> A, Y |-> Y, X |-> X,
                  plotted |-> residual, iter_num |-> iter_num,
                  value |-> prob.value]
    /\ pc' = "done"
    /\ UNCHANGED <<rng, A, Y_init, X, Y, iter_num, residual, constraint,
                   prob, stdout, exception, declared, solverCalls, writes>>

Next ==
    \/ GenerateData
    \/ Setup
    \/ LoopNext
    \/ Declare
    \/ Solve
    \/ CheckStatus
    \/ Record
    \/ Convert
    \/ Output

Spec == Init /\ [][Next]_vars

(* The cells run sequentially and the solver call returns: a step that can *)
(* be taken is taken.                                                      *)
FairSpec == Spec /\ WF_vars(Next)

(***************************************************************************)
(* Properties                                                              *)
(***************************************************************************)
(* The loop body is running (or was running when the run failed). *)
InIteration == pc \in {"solve", "check", "record", "convert", "failed"}

(* The last solver call did not return OPTIMAL and the status was tested. *)
NonOptimalSeen ==
    /\ Len(solverCalls) > 0
    /\ solverCalls[Len(solverCalls)].status # OPTIMAL
    /\ pc # "check"

(* C1: in every iteration exactly one of X, Y is the free variable and the *)
(* other a fixed array: X free with X >= 0 in odd iterations, Y free with  *)
(* Y >= 0 in even ones, so the declared blocks read X, Y, X, Y, ...        *)
C1_BlocksAlternate ==
    /\ \A j \in 1..Len(declared) :
          declared[j] = IF j % 2 = 1 THEN "X" ELSE "Y"
    /\ Len(declared) = IF pc = "declare" THEN iter_num - 1 ELSE iter_num
    /\ InIteration =>
          IF iter_num % 2 = 1
          THEN /\ X.type = "Variable"
               /\ Y.type = "ndarray"
               /\ constraint = [var |-> "X", rel |-> ">= 0"]
          ELSE /\ Y.type = "Variable"
               /\ X.type = "ndarray"
               /\ constraint = [var |-> "Y", rel |-> ">= 0"]
    /\ pc \in {"check", "record", "convert", "failed"} =>
          /\ prob.constraints = constraint
          /\ prob.objective.X = X
          /\ prob.objective.Y = Y

C1_Witness ==
    /\ pc = "solve"
    /\ iter_num = 4
    /\ declared = <<"X", "Y", "X", "Y">>
    /\ Y.type = "Variable"
    /\ X.type = "ndarray"

(* C2: the trace has MAX_ITERS slots; slot i is written once, in iteration *)
(* i, with the value the solver reported for iteration i, and keeps it;    *)
(* slots of iterations not yet recorded are untouched; a run that leaves   *)
(* the loop has written all MAX_ITERS slots.                               *)
C2_TraceWrittenInOrder ==
    pc \notin {"generate", "setup"} =>
        /\ Len(residual) = MAX_ITERS
        /\ Len(writes) =
              IF pc \in {"convert", "loop", "output", "done"}
              THEN iter_num ELSE iter_num - 1
        /\ \A j \in 1..Len(writes) :
              /\ writes[j].iter = j
              /\ writes[j].index = j
              /\ solverCalls[j].iter = j
              /\ writes[j].value = solverCalls[j].value
              /\ residual[j] = writes[j].value
        /\ \A j \in (Len(writes) + 1)..MAX_ITERS : residual[j] = 0
        /\ pc \in {"output", "done"} => Len(writes) = MAX_ITERS

C2_Witness ==
    /\ pc = "done"
    /\ Len(writes) = MAX_ITERS
    /\ residual[MAX_ITERS] = RefResidual[MAX_ITERS]
    /\ residual[1] = RefResidual[1]
    /\ report.plotted = residual

(* C3: a run whose solves all return OPTIMAL ends with Y and X both arrays *)
(* holding solutions of OPTIMAL solves, and these are what the output cell *)
(* prints.                                                                 *)
C3_FinalPairConcrete ==
    /\ pc \in {"output", "done"} =>
          /\ X.type = "ndarray"
          /\ Y.type = "ndarray"
          /\ X.value = <<OPTIMAL, MAX_ITERS - 1>>
          /\ Y.value = <<OPTIMAL, MAX_ITERS>>
    /\ pc = "done" =>
          /\ report.printed
          /\ report.X = X
          /\ report.Y = Y

C3_Witness ==
    /\ pc = "done"
    /\ \A j \in 1..MAX_ITERS : solverCalls[j].status = OPTIMAL
    /\ report.printed
    /\ report.X.type = "ndarray"
    /\ report.Y.type = "ndarray"

(* C4: a status other than OPTIMAL in iteration i ends the run at once:    *)
(* the solver was called once per iteration up to i and not again, no      *)
(* later iteration is started, slot i of the trace is not written, the     *)
(* free variable is still a cp.Variable, and slots 1..i-1 keep what the    *)
(* solver reported for them.                                               *)
C4_AbortOnNonOptimal ==
    NonOptimalSeen =>
        LET i == solverCalls[Len(solverCalls)].iter IN
        /\ pc = "failed"
        /\ exception # NoException
        /\ iter_num = i
        /\ Len(solverCalls) = i
        /\ \A j \in 1..i : solverCalls[j].iter = j
        /\ Len(declared) = i
        /\ Len(writes) = i - 1
        /\ residual[i] = 0
        /\ (IF i % 2 = 1 THEN X.type ELSE Y.type) = "Variable"
        /\ \A j \in 1..(i - 1) : residual[j] = solverCalls[j].value
        /\ ~ENABLED Next

C4_Witness ==
    /\ pc = "failed"
    /\ iter_num = 4
    /\ solverCalls[4].status = OPTIMAL_INACCURATE
    /\ residual[3] = RefResidual[3]
    /\ residual[4] = 0
    /\ Y.type = "Variable"

(* C5, as stated: the message of the failure names the iteration that      *)
(* failed.                                                                 *)
C5_MessageNamesIteration ==
    pc = "failed" =>
        \E j \in 1..Len(exception.fmtargs) : exception.fmtargs[j] = iter_num

(* C5, amended: the failure is a plain Exception with the fixed text       *)
(* "Solver did not converge!" and no formatted argument, whichever the     *)
(* iteration; the progress lines printed before it are those of            *)
(* iterations 1..i-1.                                                      *)
C5_FixedMessage ==
    NonOptimalSeen =>
        /\ exception.type = "Exception"
        /\ exception.text = "Solver did not converge!"
        /\ exception.fmtargs = << >>
        /\ Len(stdout) = iter_num - 1
        /\ \A j \in 1..Len(stdout) : stdout[j].fmtargs[1] = j

C5_Witness ==
    /\ pc = "failed"
    /\ iter_num = 7
    /\ exception.text = "Solver did not converge!"
    /\ Len(stdout) = 6

(* C6: when already the first solve does not return OPTIMAL, the run       *)
(* raises its one exception in iteration 1 and there is no final pair: X   *)
(* and Y are not both arrays, nothing was recorded and the output cell     *)
(* printed nothing.                                                        *)
C6_NeverOptimalNoResult ==
    (/\ Len(solverCalls) > 0
     /\ solverCalls[1].status # OPTIMAL
     /\ pc # "check") =>
        /\ pc = "failed"
        /\ iter_num = 1
        /\ Len(solverCalls) = 1
        /\ exception.type = "Exception"
        /\ ~(X.type = "ndarray" /\ Y.type = "ndarray")
        /\ writes = << >>
        /\ stdout = << >>
        /\ report = NoReport

C6_Witness ==
    /\ pc = "failed"
    /\ iter_num = 1
    /\ solverCalls[1].status = OPTIMAL_INACCURATE
    /\ X.type = "Variable"
    /\ ~report.printed

(* Slack of the solver's reported values: 5e-3. *)
SolverSlack == Scale \div 200

FinalEntriesAtLeast(bound) ==
    /\ Len(EntriesOf(report.Y)) = m
    /\ Len(EntriesOf(report.X)) = k
    /\ \A r \in 1..m : \A c \in 1..k : EntriesOf(report.Y)[r][c] >= bound
    /\ \A r \in 1..k : \A c \in 1..n : EntriesOf(report.X)[r][c] >= bound

C10_RecordedResidualNonnegative ==
    \A j \in 1..Len(writes) :
        /\ writes[j].value >= 0
        /\ residual[writes[j].index] >= 0

C10_Witness ==
    /\ Len(writes) = MAX_ITERS
    /\ \A j \in 1..MAX_ITERS : residual[j] > 0

(* A name bound to a matrix: a cp.Variable or an array. *)
Defined(v) == v.type \in {"Variable", "ndarray"}

(* C11: in every state Y, as variable or array, is m x k, X once defined   *)
(* is k x n, and A is m x n; so are the factors inside the problem and the *)
(* printed ones.                                                           *)
C11_ShapesKept ==
    /\ Defined(A) => A.shape = <<m, n>>
    /\ Defined(Y_init) => Y_init.shape = <<m, k>>
    /\ Defined(Y) => Y.shape = <<m, k>>
    /\ Defined(X) => X.shape = <<k, n>>
    /\ pc \notin {"generate", "setup"} => Defined(A) /\ Defined(Y)
    /\ Defined(X) <=> (iter_num >= 2 \/ (iter_num = 1 /\ pc # "declare"))
    /\ Defined(prob.objective.Y) => prob.objective.Y.shape = <<m, k>>
    /\ Defined(prob.objective.X) => prob.objective.X.shape = <<k, n>>
    /\ Defined(prob.objective.A) => prob.objective.A.shape = <<m, n>>
    /\ report.printed =>
          /\ report.A.shape = <<m, n>>
          /\ report.Y.shape = <<m, k>>
          /\ report.X.shape = <<k, n>>

C11_Witness ==
    /\ pc = "loop"
    /\ iter_num = 2
    /\ Y.type = "ndarray"
    /\ Y.shape = <<m, k>>
    /\ X.type = "ndarray"
    /\ X.shape = <<k, n>>
    /\ A.shape = <<m, n>>

(* The run has ended: cell 3 finished, or the exception was raised. *)
Terminated == pc \in {"done", "failed"}

(* Solver calls so far are one per iteration, and only the last one may    *)
(* have returned a status other than OPTIMAL.                              *)
OneCallPerIteration ==
    /\ Len(solverCalls) <= MAX_ITERS
    /\ Len(solverCalls) =
          IF pc \in {"declare", "solve"} THEN iter_num - 1 ELSE iter_num
    /\ \A j \in 1..Len(solverCalls) : solverCalls[j].iter = j
    /\ \A j \in 1..(Len(solverCalls) - 1) : solverCalls[j].status = OPTIMAL
    /\ pc \in {"output", "done"} =>
          /\ Len(solverCalls) = MAX_ITERS
          /\ solverCalls[MAX_ITERS].status = OPTIMAL
    /\ pc = "failed" =>
          /\ Len(solverCalls) = iter_num
          /\ solverCalls[iter_num].status # OPTIMAL

(* C12: the run always ends; it makes one solver call per iteration, at    *)
(* most MAX_ITERS, and ends after exactly MAX_ITERS calls when all return  *)
(* OPTIMAL and after exactly i calls when the first other status comes in  *)
(* iteration i.                                                            *)
C12_TerminatesWithOneCallPerIteration ==
    /\ []OneCallPerIteration
    /\ <>Terminated
    /\ [][Terminated => FALSE]_vars

C12_Witness ==
    /\ pc = "failed"
    /\ iter_num = 5
    /\ Len(solverCalls) = 5
    /\ \A j \in 1..4 : solverCalls[j].status = OPTIMAL

====
